---- MODULE Spec2Model ----
(***************************************************************************)
(* Model of the StudyMaster AI backend core:                               *)
(*   - the SM-2 scheduler (calculateSpacedRepetition),                     *)
(*   - the /api/generate request coalescing and content cache,             *)
(*   - the Keep-Going question-batch sessions (/api/sessions).             *)
(* Ease factors are kept in hundredths (2.5 is 250): the defaults and all  *)
(* SM-2 increments are multiples of 0.01, so the scaling is exact up to    *)
(* the rounding error of IEEE doubles.                                     *)
(***************************************************************************)
EXTENDS Integers, Sequences, FiniteSets, TLC

----------------------------------------------------------------------------
(* Bounds of the model *)

\* number of reviews applied to one card
MaxReviews == 4
\* largest repetitions value of a starting card
MaxInitReps == 2
\* number of /api/generate requests
NReq == 2
\* milliseconds by which one clock step advances Date.now()
ClockStep == 150000
\* number of clock steps
MaxTicks == 4
\* number of nextQuestions calls started
MaxCalls == 4
\* number of review requests
NReview == 2
\* number of days by which the clock of the flashcards advances
MaxDays == 2

\* largest maxRetries given to retryWithBackoff
MaxRetries == 2

\* clock steps of the runs that span two cleanups of the content cache
MaxLongTicks == 9

----------------------------------------------------------------------------
(* State *)

\* the scheduler's card under review
VARIABLES
    card,       \* the card's current {repetitions, easeFactor, interval}
    hist        \* the reviews applied so far: <<quality, card before, card after>>

\* the flashcards: /api/spaced-repetition/review and /api/spaced-repetition/due
VARIABLES
    clock,          \* Date.now() of the flashcard handlers, in days
    flashcards,     \* collection flashcards: card id -> stored document
    cardsReviewed,  \* collection users: user id -> studyStats.cardsReviewed
    rv,             \* each review request: position, inputs, snapshot, response
    due             \* the response of the last due-cards query

reviewVars == <<clock, flashcards, cardsReviewed, rv, due>>

\* the helpers of the generation pipeline, called on their own
VARIABLES
    fp,     \* two calls of generateRequestKey: their inputs and their keys
    rt      \* one call of retryWithBackoff: its position, attempts and outcome

helperVars == <<fp, rt>>

cardVars == <<card, hist, reviewVars, helperVars>>

\* /api/generate
VARIABLES
    now,                \* Date.now(), in milliseconds
    ticks,              \* clock steps taken
    nextSweep,          \* time at which the cleanup timer fires next
    inflightRequests,   \* Map requestKey -> pending generation (its owner's id)
    contentCache,       \* Map requestKey -> {data, timestamp}
    gen,                \* the generationPromise of each request that started one
    req,                \* each request's position, inputs and response
    studySessions       \* documents inserted into the studySessions collection

genVars == <<now, ticks, nextSweep, inflightRequests, contentCache, gen, req,
             studySessions>>

\* /api/sessions
VARIABLES
    study_sessions,         \* collection study_sessions: session id -> record
    question_batches,       \* collection question_batches, in insertion order
    questionSessionCache,   \* Map session id -> the cached questions
    created,                \* responses of POST /api/sessions, by session id
    nq,                     \* each running nextQuestions request
    calls                   \* the completed nextQuestions calls, in completion order

sessVars == <<study_sessions, question_batches, questionSessionCache, created,
              nq, calls>>

vars == <<cardVars, genVars, sessVars>>

----------------------------------------------------------------------------
(* Scheduler: calculateSpacedRepetition *)

\* the hard floor of the ease factor, 1.3, in hundredths
EaseFloor == 130

Qualities == 0..5

Max(a, b) == IF a >= b THEN a ELSE b

\* Math.round(n / 100) for n >= 0: rounds half up
RoundHundredths(n) == (n + 50) \div 100

\* the ease change without its quadratic term: 0.1 - (5 - quality) * 0.08
EaseDeltaLinear(quality) == 10 - (5 - quality) * 8

\* 0.1 - (5 - quality) * (0.08 + (5 - quality) * 0.02), in hundredths
EaseDelta(quality) == 10 - (5 - quality) * (8 + (5 - quality) * 2)

\* the ease update without its floor
NoFloorEase(easeFactor, quality) == easeFactor + EaseDelta(quality)

\* easeFactor = Math.max(1.3, easeFactor + ...)
NewEase(easeFactor, quality) == Max(EaseFloor, easeFactor + EaseDelta(quality))

\* the interval computed after the ease update instead of before it
NewIntervalAfterEase(quality, repetitions, easeFactor, interval) ==
    IF quality < 3 THEN 1
    ELSE IF repetitions = 0 THEN 1
    ELSE IF repetitions = 1 THEN 6
    ELSE RoundHundredths(interval * Max(EaseFloor, easeFactor + EaseDelta(quality)))

\* the interval of a later pass taken from the ease factor alone
NewIntervalEaseOnly(quality, repetitions, easeFactor, interval) ==
    IF quality < 3 THEN 1
    ELSE IF repetitions = 0 THEN 1
    ELSE IF repetitions = 1 THEN 6
    ELSE RoundHundredths(easeFactor)

\* the interval assigned by the if/else of calculateSpacedRepetition
NewInterval(quality, repetitions, easeFactor, interval) ==
    IF quality < 3 THEN 1
    ELSE IF repetitions = 0 THEN 1
    ELSE IF repetitions = 1 THEN 6
    ELSE RoundHundredths(interval * easeFactor)

\* the pass threshold off by one: quality 2 counts as a pass
NewRepetitionsLowThreshold(quality, repetitions) ==
    IF quality < 2 THEN 0 ELSE repetitions + 1

\* the repetitions assigned by the if/else of calculateSpacedRepetition
NewRepetitions(quality, repetitions) ==
    IF quality < 3 THEN 0 ELSE repetitions + 1

\* the scheduler with a failed card due the same day: interval 0 on a failure
calculateSpacedRepetitionSameDay(quality, repetitions, easeFactor, interval) ==
    [repetitions |-> NewRepetitions(quality, repetitions),
     interval    |-> IF quality < 3 THEN 0
                     ELSE NewInterval(quality, repetitions, easeFactor, interval),
     easeFactor  |-> NewEase(easeFactor, quality)]

calculateSpacedRepetition(quality, repetitions, easeFactor, interval) ==
    [repetitions |-> NewRepetitions(quality, repetitions),
     interval    |-> NewInterval(quality, repetitions, easeFactor, interval),
     easeFactor  |-> NewEase(easeFactor, quality)]

\* starting cards: the default card of a new flashcard and other stored states
InitCards ==
    [repetitions : 0..MaxInitReps,
     easeFactor  : {130, 136, 250, 270},
     interval    : {1, 6, 15}]

InitCardVars ==
    /\ card \in InitCards
    /\ hist = <<>>

Review(quality) ==
    /\ Len(hist) < MaxReviews
    /\ card' = calculateSpacedRepetition(quality, card.repetitions,
                                         card.easeFactor, card.interval)
    /\ hist' = Append(hist, [quality |-> quality, before |-> card, after |-> card'])
    /\ UNCHANGED <<reviewVars, helperVars, genVars, sessVars>>

----------------------------------------------------------------------------
(* /api/generate: request coalescing and content cache *)

\* the cache TTL of the generate handler and of the sweep, in milliseconds
CACHE_TTL == 300000
\* the period of the cleanup timer, in milliseconds
SWEEP_PERIOD == 600000

Requests == 1..NReq

\* the files collection: owner and text length of each stored file
FileOwner == [f \in {1, 2} |-> IF f = 1 THEN "u1" ELSE "u2"]
FileTextLen == [f \in {1, 2} |-> 3]

\* Map.set and Map.delete on a Map kept as a function over its keys
MapSet(m, k, v) == [x \in DOMAIN m \cup {k} |-> IF x = k THEN v ELSE m[x]]
MapDelete(m, k) == [x \in DOMAIN m \ {k} |-> m[x]]

SeqRange(s) == {s[i] : i \in 1..Len(s)}

RECURSIVE SetSum(_, _)
SetSum(S, f) ==
    IF S = {} THEN 0
    ELSE LET x == CHOOSE y \in S : TRUE IN f[x] + SetSum(S \ {x}, f)

\* files.find({_id: {$in: ids}, userId}): the caller's own files among fileIds
FilesFound(userId, fileIds) == {f \in SeqRange(fileIds) : FileOwner[f] = userId}

\* combinedText.length: the texts joined by '\n\n'
CombinedTextLength(files) ==
    SetSum(files, FileTextLen) + 2 * (Cardinality(files) - 1)

RECURSIVE Insert(_, _)
Insert(x, s) ==
    IF s = <<>> THEN <<x>>
    ELSE IF x <= Head(s) THEN <<x>> \o s
    ELSE <<Head(s)>> \o Insert(x, Tail(s))

\* fileIds kept in the order in which they were sent
SortIdsKeepOrder(s) == s

\* fileIds.sort()
RECURSIVE SortIds(_)
SortIds(s) == IF s = <<>> THEN <<>> ELSE Insert(Head(s), SortIds(Tail(s)))

\* Strings are sequences of tokens: a token is a run of characters without a
\* colon, or one of the punctuation characters the key is built with.
DigitChars == <<"0", "1", "2", "3", "4", "5", "6", "7", "8", "9">>

\* String(n) for a number n >= 0
RECURSIVE Digits(_)
Digits(n) ==
    IF n < 10 THEN <<DigitChars[n + 1]>>
    ELSE Digits(n \div 10) \o <<DigitChars[(n % 10) + 1]>>

\* JSON.stringify of an array of id strings: ["1","2"]
RECURSIVE JsonItems(_)
JsonItems(ids) ==
    IF ids = <<>> THEN <<>>
    ELSE <<"\"">> \o Digits(Head(ids)) \o <<"\"">>
         \o (IF Tail(ids) = <<>> THEN <<>> ELSE <<",">> \o JsonItems(Tail(ids)))
JsonStringify(ids) == <<"[">> \o JsonItems(ids) \o <<"]">>

\* the key built without the owner
generateRequestKeyNoOwner(userId, fileIds, mode, textLength) ==
    JsonStringify(SortIds(fileIds)) \o <<":">> \o mode \o <<":">>
        \o Digits(textLength)

\* `${userId}:${JSON.stringify(fileIds.sort())}:${mode}:${textLength}`
generateRequestKey(userId, fileIds, mode, textLength) ==
    userId \o <<":">> \o JsonStringify(SortIds(fileIds)) \o <<":">> \o mode
        \o <<":">> \o Digits(textLength)

\* the key of a request of the model: its owner and mode are single tokens
RequestKeyOf(userId, fileIds, mode) ==
    generateRequestKey(<<userId>>, fileIds, <<mode>>,
                       CombinedTextLength(FilesFound(userId, fileIds)))

\* the request bodies sent: the same files in both orders, and another owner
RequestInputs ==
    {[userId |-> "u1", fileIds |-> <<1, 2>>, mode |-> "summary"],
     [userId |-> "u1", fileIds |-> <<2, 1>>, mode |-> "summary"],
     [userId |-> "u2", fileIds |-> <<1, 2>>, mode |-> "summary"]}

\* the fingerprints of the requests sent
AllKeys == {RequestKeyOf(in.userId, in.fileIds, in.mode) : in \in RequestInputs}

\* the generateStudyContent tasks started for a mode
TasksFor(mode) ==
    IF mode = "comprehensive" THEN {"summary", "studyPlan", "questions", "flashcards"}
    ELSE IF mode = "summary" THEN {"summary", "studyPlan"}
    ELSE IF mode = "practice" \/ mode = "questions" THEN {"questions"}
    ELSE IF mode = "flashcards" THEN {"flashcards"}
    ELSE IF mode = "gaps" THEN {"knowledgeGaps"}
    ELSE {}

NoKey == <<>>
NoValue == [none |-> TRUE]
NoGen == [state |-> "none", key |-> NoKey, tasks |-> {}, value |-> NoValue]
NoReq == [pc |-> "idle", userId |-> "", key |-> NoKey, promise |-> 0,
          resp |-> NoValue, staleAtStart |-> FALSE]

Settled(g) == gen[g].state \in {"fulfilled", "rejected"}
Running(g) == gen[g].state = "tasks"

\* the registry check left out
InflightNever(key) == FALSE

\* inflightRequests.has(requestKey)
InflightHas(key) == key \in DOMAIN inflightRequests

\* a cache entry used whatever its age
CacheFreshAnyAge(key) == key \in DOMAIN contentCache

\* a cache entry never used
CacheFreshNever(key) == FALSE

\* the TTL comparison with <= instead of <
CacheFreshInclusive(key) ==
    /\ key \in DOMAIN contentCache
    /\ now - contentCache[key].timestamp <= CACHE_TTL

\* cachedResult && Date.now() - cachedResult.timestamp < 300000
CacheFresh(key) ==
    /\ key \in DOMAIN contentCache
    /\ now - contentCache[key].timestamp < CACHE_TTL

\* a rejected generation answered as an empty success
AwaitOutcomeSwallowed(g) ==
    IF gen[g].state = "fulfilled"
    THEN [status |-> 200, body |-> gen[g].value]
    ELSE [status |-> 200, body |-> NoValue]

\* what `await generationPromise` gives a handler: the result object, or the
\* error that the handler's catch turns into a 500 response
AwaitOutcome(g) ==
    IF gen[g].state = "fulfilled"
    THEN [status |-> 200, body |-> gen[g].value]
    ELSE [status |-> 500, body |-> gen[g].value]

InitGenVars ==
    /\ now = 0
    /\ ticks = 0
    /\ nextSweep = SWEEP_PERIOD
    /\ inflightRequests = <<>>
    /\ contentCache = <<>>
    /\ gen = [r \in Requests |-> NoGen]
    /\ req = [r \in Requests |-> NoReq]
    /\ studySessions = {}

\* The handler from its entry to its first suspension after the registry and
\* cache checks: attach to the pending generation, answer from the cache, or
\* start the generation and register it (no await in between).
GenerateStart(r, userId, fileIds, mode) ==
    /\ req[r].pc = "idle"
    /\ r > 1 => req[r - 1].pc # "idle"
    /\ LET requestKey == RequestKeyOf(userId, fileIds, mode)
           stale == requestKey \in DOMAIN contentCache
                    /\ now - contentCache[requestKey].timestamp >= CACHE_TTL
           base == [req[r] EXCEPT !.userId = userId, !.key = requestKey,
                                  !.staleAtStart = stale]
       IN
       IF InflightHas(requestKey) THEN
            /\ req' = [req EXCEPT ![r] = [base EXCEPT !.pc = "waiting",
                                  !.promise = inflightRequests[requestKey]]]
            /\ UNCHANGED <<inflightRequests, gen>>
       ELSE IF CacheFresh(requestKey) THEN
            /\ req' = [req EXCEPT ![r] = [base EXCEPT !.pc = "done",
                          !.resp = [status |-> 200,
                                    body |-> contentCache[requestKey].data,
                                    source |-> "cache",
                                    age |-> now - contentCache[requestKey].timestamp]]]
            /\ UNCHANGED <<inflightRequests, gen>>
       ELSE
            /\ gen' = [gen EXCEPT ![r] = [NoGen EXCEPT !.state = "tasks",
                                  !.key = requestKey, !.tasks = TasksFor(mode)]]
            /\ inflightRequests' = MapSet(inflightRequests, requestKey, r)
            /\ req' = [req EXCEPT ![r] = [base EXCEPT !.pc = "owner", !.promise = r]]
    /\ UNCHANGED <<now, ticks, nextSweep, contentCache, studySessions>>
    /\ UNCHANGED <<cardVars, sessVars>>

\* The generation runs to its end: Promise.allSettled resolves (the tasks in
\* `failed` were rejected and are only logged), then studySessions.insertOne
\* resolves, the result is cached and the promise fulfilled; or insertOne
\* rejects and the promise is rejected with that error. Nothing shared is
\* read or written between the two awaits.
Produce(g, failed, dbOk) ==
    /\ gen[g].state = "tasks"
    /\ failed \subseteq gen[g].tasks
    /\ IF dbOk THEN
            LET responseData == [sessionId |-> g,
                                 content |-> gen[g].tasks \ failed]
            IN /\ studySessions' = studySessions \cup {g}
               /\ contentCache' = MapSet(contentCache, gen[g].key,
                                      [data |-> responseData, timestamp |-> now])
               /\ gen' = [gen EXCEPT ![g].state = "fulfilled",
                                     ![g].value = responseData]
       ELSE /\ gen' = [gen EXCEPT ![g].state = "rejected",
                                  ![g].value = [error |-> g]]
            /\ UNCHANGED <<studySessions, contentCache>>
    /\ UNCHANGED <<now, ticks, nextSweep, inflightRequests, req>>
    /\ UNCHANGED <<cardVars, sessVars>>

\* every promise reaction that is due has run (reactions are microtasks; timers
\* and the clock only move between tasks)
MicrotasksDrained ==
    \A r \in Requests : req[r].pc \in {"owner", "waiting"} => ~Settled(req[r].promise)

\* the registry entry deleted only after a successful generation
RegistryAfterOwnerOnSuccess(r) ==
    IF gen[r].state = "fulfilled"
    THEN MapDelete(inflightRequests, req[r].key)
    ELSE inflightRequests

\* finally { inflightRequests.delete(requestKey) }
RegistryAfterOwner(r) == MapDelete(inflightRequests, req[r].key)

\* the owner resumes from `await generationPromise`: respond, and in the
\* finally block delete the registry entry
OwnerResume(r) ==
    /\ req[r].pc = "owner"
    /\ Settled(r)
    /\ req' = [req EXCEPT ![r].pc = "done",
                  ![r].resp = [status |-> AwaitOutcome(r).status,
                               body |-> AwaitOutcome(r).body,
                               source |-> "own", age |-> 0]]
    /\ inflightRequests' = RegistryAfterOwner(r)
    /\ UNCHANGED <<now, ticks, nextSweep, contentCache, gen, studySessions>>
    /\ UNCHANGED <<cardVars, sessVars>>

\* a coalesced request resumes from `await inflightRequests.get(requestKey)`
WaiterResume(r) ==
    /\ req[r].pc = "waiting"
    /\ Settled(req[r].promise)
    /\ req' = [req EXCEPT ![r].pc = "done",
                  ![r].resp = [status |-> AwaitOutcome(req[r].promise).status,
                               body |-> AwaitOutcome(req[r].promise).body,
                               source |-> "inflight", age |-> 0]]
    /\ UNCHANGED <<now, ticks, nextSweep, inflightRequests, contentCache, gen,
                   studySessions>>
    /\ UNCHANGED <<cardVars, sessVars>>

\* time passes; the cleanup timer fires before the clock moves past its due time
Tick ==
    /\ ticks < MaxTicks
    /\ MicrotasksDrained
    /\ now < nextSweep
    /\ now' = now + ClockStep
    /\ ticks' = ticks + 1
    /\ UNCHANGED <<nextSweep, inflightRequests, contentCache, gen, req,
                   studySessions>>
    /\ UNCHANGED <<cardVars, sessVars>>

\* the clock of a run long enough for the cleanup timer to fire twice
LongTick ==
    /\ ticks < MaxLongTicks
    /\ MicrotasksDrained
    /\ now < nextSweep
    /\ now' = now + ClockStep
    /\ ticks' = ticks + 1
    /\ UNCHANGED <<nextSweep, inflightRequests, contentCache, gen, req,
                   studySessions>>
    /\ UNCHANGED <<cardVars, sessVars>>

\* the cleanup deleting the entries that have reached the TTL
SweepInclusive ==
    /\ now >= nextSweep
    /\ MicrotasksDrained
    /\ contentCache' = [k \in {x \in DOMAIN contentCache :
                                  ~(now - contentCache[x].timestamp >= CACHE_TTL)}
                            |-> contentCache[k]]
    /\ nextSweep' = nextSweep + SWEEP_PERIOD
    /\ UNCHANGED <<now, ticks, inflightRequests, gen, req, studySessions>>
    /\ UNCHANGED <<cardVars, sessVars>>

\* the setInterval callback: delete the entries older than the TTL
Sweep ==
    /\ now >= nextSweep
    /\ MicrotasksDrained
    /\ contentCache' = [k \in {x \in DOMAIN contentCache :
                                  ~(now - contentCache[x].timestamp > CACHE_TTL)}
                            |-> contentCache[k]]
    /\ nextSweep' = nextSweep + SWEEP_PERIOD
    /\ UNCHANGED <<now, ticks, inflightRequests, gen, req, studySessions>>
    /\ UNCHANGED <<cardVars, sessVars>>

----------------------------------------------------------------------------
(* Keep-Going question-batch sessions: /api/sessions, /api/sessions/:id/next *)

\* questions per generated batch (batchQuestionSchema minItems = maxItems)
BATCH_SIZE == 20
\* parseInt(req.query.limit) || 5
DEFAULT_LIMIT == 5
\* initialQuestions: batch.questions.slice(0, 5)
INITIAL_COUNT == 5
\* previousTopics is seeded from questions.slice(0, 5)
TOPIC_SEED == 5

SessionIds == {1}
Slots == {1, 2}
\* the values of req.query.limit after parseInt
RawLimits == {-1, 0, 5, 20}

Min(a, b) == IF a <= b THEN a ELSE b

\* parseInt(req.query.limit) || 5: 0 (and NaN) fall back to the default
ParseLimit(raw) == IF raw = 0 THEN DEFAULT_LIMIT ELSE raw

\* slice with an inclusive end: one element more than asked for
SliceToInclusive(s, end) ==
    LET n == IF end < 0 THEN Max(Len(s) + end, 0) ELSE Min(end + 1, Len(s))
    IN SubSeq(s, 1, n)

\* Array.prototype.slice(0, end)
SliceTo(s, end) ==
    LET n == IF end < 0 THEN Max(Len(s) + end, 0) ELSE Min(end, Len(s))
    IN SubSeq(s, 1, n)

\* Array.prototype.filter(q => q.status === 'unseen')
RECURSIVE FilterUnseen(_)
FilterUnseen(qs) ==
    IF qs = <<>> THEN <<>>
    ELSE IF Head(qs).status = "unseen" THEN <<Head(qs)>> \o FilterUnseen(Tail(qs))
    ELSE FilterUnseen(Tail(qs))

Ids(qs) == {qs[i].id : i \in 1..Len(qs)}
IdSeq(qs) == [i \in 1..Len(qs) |-> qs[i].id]

\* q.status = 'shown' for the questions whose id is in ids
MarkShown(qs, ids) ==
    [i \in 1..Len(qs) |-> IF qs[i].id \in ids
                          THEN [qs[i] EXCEPT !.status = "shown"] ELSE qs[i]]

\* the questions of the n-th batch ever built, all unseen, with fresh ids
NewQuestions(n) ==
    [i \in 1..BATCH_SIZE |-> [id |-> (n - 1) * BATCH_SIZE + i, status |-> "unseen"]]

\* findOne({sessionId, 'questions.status': 'unseen'}): position of the first
\* stored batch of the session that has an unseen question, or 0
\* the first batch of the session, whatever the status of its questions
FindAnyBatch(sid) ==
    LET hits == {b \in 1..Len(question_batches) :
                    question_batches[b].sessionId = sid}
    IN IF hits = {} THEN 0 ELSE CHOOSE b \in hits : \A c \in hits : b <= c

\* question_batches.findOne({sessionId, 'questions.status': 'unseen'}): the
\* first stored batch of the session that has an unseen question
FindUnseenBatch(sid) ==
    LET hits == {b \in 1..Len(question_batches) :
                    /\ question_batches[b].sessionId = sid
                    /\ \E i \in 1..Len(question_batches[b].questions) :
                           question_batches[b].questions[i].status = "unseen"}
    IN IF hits = {} THEN 0 ELSE CHOOSE b \in hits : \A c \in hits : b <= c

\* authenticated users, and the user who creates each session (req.userId)
Users == {"u1", "u2"}
Creator == [sid \in SessionIds |-> "u1"]

IdleSlot == [pc |-> "idle", userId |-> "", id |-> 0, limit |-> 0, startN |-> 0,
             batch |-> 0,
             take |-> <<>>, remaining |-> 0, session |-> [none |-> TRUE],
             newBatch |-> <<>>]

InitSessVars ==
    /\ study_sessions = <<>>
    /\ question_batches = <<>>
    /\ questionSessionCache = <<>>
    /\ created = <<>>
    /\ nq = [s \in Slots |-> IdleSlot]
    /\ calls = <<>>

\* a completed call, as the client saw it
CallRecord(slot, path, questions, remaining) ==
    [userId |-> nq[slot].userId, id |-> nq[slot].id, limit |-> nq[slot].limit,
     startN |-> nq[slot].startN,
     path |-> path, questions |-> questions, remaining |-> remaining]

\* POST /api/sessions. The session id reaches the client only in the response,
\* so no other request names this session before the handler ends.
CreateSession(sid, genOk) ==
    /\ sid \notin DOMAIN study_sessions
    /\ \A t \in SessionIds : t < sid => t \in DOMAIN study_sessions
    /\ IF genOk THEN
            LET n == Len(question_batches) + 1
                questions == NewQuestions(n)
            IN /\ question_batches' = Append(question_batches,
                        [sessionId |-> sid, batchNumber |-> 1, questions |-> questions])
               /\ study_sessions' = MapSet(study_sessions, sid,
                        [userId |-> Creator[sid], currentBatch |-> 1,
                         totalGenerated |-> 20,
                         previousTopics |-> TOPIC_SEED])
               /\ questionSessionCache' = MapSet(questionSessionCache, sid, questions)
               /\ created' = MapSet(created, sid,
                        [status |-> 200,
                         initialQuestions |-> IdSeq(SliceTo(questions, INITIAL_COUNT))])
       ELSE /\ study_sessions' = MapSet(study_sessions, sid,
                        [userId |-> Creator[sid], currentBatch |-> 1,
                         totalGenerated |-> 0, previousTopics |-> 0])
            /\ created' = MapSet(created, sid, [status |-> 500, initialQuestions |-> <<>>])
            /\ UNCHANGED <<question_batches, questionSessionCache>>
    /\ UNCHANGED <<nq, calls>>
    /\ UNCHANGED <<cardVars, genVars>>

\* GET /api/sessions/:id/next by the authenticated user userId, up to the
\* first database read: serve from the in-memory cache when it has unseen
\* questions, else query the batches. req.userId is not read.
NextStartBy(slot, sid, raw, userId) ==
    /\ nq[slot].pc = "idle"
    /\ sid \in DOMAIN created /\ created[sid].status = 200
    /\ Len(calls) + Cardinality({t \in Slots : nq[t].pc # "idle"}) < MaxCalls
    /\ LET limit == ParseLimit(raw)
           started == [IdleSlot EXCEPT !.userId = userId, !.id = sid,
                                       !.limit = limit,
                                       !.startN = Len(calls)]
           cached == IF sid \in DOMAIN questionSessionCache
                     THEN questionSessionCache[sid] ELSE <<>>
           unseenQuestions == SliceTo(FilterUnseen(cached), limit)
           marked == MarkShown(cached, Ids(unseenQuestions))
       IN IF Len(unseenQuestions) > 0 THEN
               /\ questionSessionCache' = MapSet(questionSessionCache, sid, marked)
               /\ calls' = Append(calls,
                      [userId |-> userId, id |-> sid, limit |-> limit,
                       startN |-> Len(calls),
                       path |-> "cache", questions |-> IdSeq(unseenQuestions),
                       remaining |-> Len(FilterUnseen(marked)) - Len(unseenQuestions)])
               /\ UNCHANGED nq
          ELSE /\ nq' = [nq EXCEPT ![slot] = [started EXCEPT !.pc = "find"]]
               /\ UNCHANGED <<questionSessionCache, calls>>
    /\ UNCHANGED <<study_sessions, question_batches, created>>
    /\ UNCHANGED <<cardVars, genVars>>

\* the request of the user who created the session
NextStart(slot, sid, raw) ==
    /\ sid \in DOMAIN study_sessions
    /\ NextStartBy(slot, sid, raw, study_sessions[sid].userId)

\* question_batches.findOne resolves
NextFind(slot) ==
    /\ nq[slot].pc = "find"
    /\ LET b == FindUnseenBatch(nq[slot].id)
       IN IF b = 0 THEN
               /\ nq' = [nq EXCEPT ![slot].pc = "readSession"]
               /\ UNCHANGED calls
          ELSE LET batch == question_batches[b]
                   unseenQuestions == SliceTo(FilterUnseen(batch.questions),
                                              nq[slot].limit)
                   remaining == Len(FilterUnseen(batch.questions))
                                - Len(unseenQuestions)
               IN IF Len(unseenQuestions) > 0 THEN
                       /\ nq' = [nq EXCEPT ![slot].pc = "mark", ![slot].batch = b,
                                    ![slot].take = IdSeq(unseenQuestions),
                                    ![slot].remaining = remaining]
                       /\ UNCHANGED calls
                  ELSE /\ calls' = Append(calls, CallRecord(slot, "empty", <<>>, 0))
                       /\ nq' = [nq EXCEPT ![slot] = IdleSlot]
    /\ UNCHANGED <<study_sessions, question_batches, questionSessionCache, created>>
    /\ UNCHANGED <<cardVars, genVars>>

\* question_batches.updateOne resolves: the taken questions are marked shown
\* in the stored batch, and the response is sent
NextMark(slot) ==
    /\ nq[slot].pc = "mark"
    /\ LET b == nq[slot].batch
           ids == {nq[slot].take[i] : i \in 1..Len(nq[slot].take)}
       IN question_batches' = [question_batches EXCEPT ![b].questions =
                                   MarkShown(question_batches[b].questions, ids)]
    /\ calls' = Append(calls, CallRecord(slot, "stored", nq[slot].take,
                                         nq[slot].remaining))
    /\ nq' = [nq EXCEPT ![slot] = IdleSlot]
    /\ UNCHANGED <<study_sessions, questionSessionCache, created>>
    /\ UNCHANGED <<cardVars, genVars>>

\* study_sessions.findOne and files.find resolve; generateQuestionBatch is called
NextReadSession(slot) ==
    /\ nq[slot].pc = "readSession"
    /\ IF nq[slot].id \in DOMAIN study_sessions THEN
            /\ nq' = [nq EXCEPT ![slot].pc = "generate",
                                ![slot].session = study_sessions[nq[slot].id]]
            /\ UNCHANGED calls
       ELSE /\ calls' = Append(calls, CallRecord(slot, "notfound", <<>>, 0))
            /\ nq' = [nq EXCEPT ![slot] = IdleSlot]
    /\ UNCHANGED <<study_sessions, question_batches, questionSessionCache, created>>
    /\ UNCHANGED <<cardVars, genVars>>

\* the generate step with a failure that stores what was generated so far
NextGenerateKeepsPartial(slot, genOk) ==
    /\ nq[slot].pc = "generate"
    /\ IF genOk THEN
            /\ nq' = [nq EXCEPT ![slot].pc = "insert"]
            /\ UNCHANGED <<calls, question_batches>>
       ELSE /\ calls' = Append(calls, CallRecord(slot, "error", <<>>, 0))
            /\ question_batches' = Append(question_batches,
                   [sessionId |-> nq[slot].id,
                    batchNumber |-> nq[slot].session.currentBatch + 1,
                    questions |-> NewQuestions(Len(question_batches) + 1)])
            /\ nq' = [nq EXCEPT ![slot] = IdleSlot]
    /\ UNCHANGED <<study_sessions, questionSessionCache, created>>
    /\ UNCHANGED <<cardVars, genVars>>

\* generateQuestionBatch resolves with 20 questions, or throws after its
\* retries and the catch block answers 500
NextGenerate(slot, genOk) ==
    /\ nq[slot].pc = "generate"
    /\ IF genOk THEN
            /\ nq' = [nq EXCEPT ![slot].pc = "insert"]
            /\ UNCHANGED calls
       ELSE /\ calls' = Append(calls, CallRecord(slot, "error", <<>>, 0))
            /\ nq' = [nq EXCEPT ![slot] = IdleSlot]
    /\ UNCHANGED <<study_sessions, question_batches, questionSessionCache, created>>
    /\ UNCHANGED <<cardVars, genVars>>

\* question_batches.insertOne(newBatch) resolves
NextInsert(slot) ==
    /\ nq[slot].pc = "insert"
    /\ LET questions == NewQuestions(Len(question_batches) + 1)
       IN /\ question_batches' = Append(question_batches,
                  [sessionId |-> nq[slot].id,
                   batchNumber |-> nq[slot].session.currentBatch + 1,
                   questions |-> questions])
          /\ nq' = [nq EXCEPT ![slot].pc = "update", ![slot].newBatch = questions]
    /\ UNCHANGED <<study_sessions, questionSessionCache, created, calls>>
    /\ UNCHANGED <<cardVars, genVars>>

\* study_sessions.updateOne resolves; the cache is replaced by the new batch,
\* the returned questions are marked shown in memory and the response is sent
NextUpdate(slot) ==
    /\ nq[slot].pc = "update"
    /\ LET sid == nq[slot].id
           session == nq[slot].session
           returnQuestions == SliceTo(nq[slot].newBatch, nq[slot].limit)
       IN /\ study_sessions' = [study_sessions EXCEPT ![sid] =
                  [userId |-> study_sessions[sid].userId,
                   currentBatch |-> session.currentBatch + 1,
                   totalGenerated |-> session.totalGenerated + 20,
                   previousTopics |-> study_sessions[sid].previousTopics + TOPIC_SEED]]
          /\ questionSessionCache' = MapSet(questionSessionCache, sid,
                  MarkShown(nq[slot].newBatch, Ids(returnQuestions)))
          /\ calls' = Append(calls, CallRecord(slot, "new", IdSeq(returnQuestions),
                                               20 - nq[slot].limit))
    /\ nq' = [nq EXCEPT ![slot] = IdleSlot]
    /\ UNCHANGED <<question_batches, created>>
    /\ UNCHANGED <<cardVars, genVars>>

----------------------------------------------------------------------------
(* Flashcards: /api/spaced-repetition/review, /api/spaced-repetition/due *)

\* the largest number of cards the due-cards query returns
DUE_LIMIT == 20
\* the default ease factor of the review handler, 2.5, in hundredths
DEFAULT_EASE == 250

Reviews == 1..NReview

\* the not-a-number value of an ease factor; every number the scheduler
\* stores is at least EaseFloor, so -1 stands for no number
NaN == -1
\* lastReview: null; every date is at least 0
NoDate == -2

\* x || d: the default replaces the falsy values 0 and NaN
OrDefault(x, d) == IF x = 0 \/ x = NaN THEN d ELSE x

\* card 1 belongs to u1 and card 2 to u2; with bulk, u1 owns DUE_LIMIT more
CardIds(bulk) == IF bulk THEN 1..(2 + DUE_LIMIT) ELSE {1, 2}

StoredCard(userId, nextReview) ==
    [userId |-> userId, repetitions |-> 0, easeFactor |-> DEFAULT_EASE,
     interval |-> 1, nextReview |-> nextReview, lastReview |-> NoDate]

\* the stored collections a request can find
InitFlashcards ==
    {[id \in CardIds(bulk) |->
        IF id = 1 THEN StoredCard("u1", d1)
        ELSE IF id = 2 THEN StoredCard("u2", d2)
        ELSE StoredCard("u1", 0)] :
     bulk \in BOOLEAN, d1 \in 0..2, d2 \in 0..2}

\* the ids of the sample cards of the demo user
DemoCardIds == {-1, -2, -3, -4, -5}

\* req.userId and req.body of the review requests
ReviewInputs ==
    {[userId |-> "u1", body |-> [cardId |-> 1, quality |-> q]] :
        q \in {-1, 2, 5, 7}}
    \cup {[userId |-> "u1", body |-> [cardId |-> 1]],
          [userId |-> "u2", body |-> [cardId |-> 1, quality |-> 5]],
          [userId |-> "demo", body |-> [cardId |-> 1, quality |-> 5]]}

NoReview == [pc |-> "idle", userId |-> "", body |-> NoValue, card |-> NoValue,
             result |-> NoValue, set |-> NoValue, resp |-> NoValue]

\* the scheduler call with nextReview taken from the interval it was given
\* instead of the interval it computed
ScheduleFromOldInterval(body, repetitions, easeFactor, interval) ==
    LET r == IF "quality" \in DOMAIN body
             THEN calculateSpacedRepetition(body.quality, repetitions,
                                            easeFactor, interval)
             ELSE [repetitions |-> repetitions + 1, interval |-> interval,
                   easeFactor |-> NaN]
    IN  [repetitions |-> r.repetitions, interval |-> r.interval,
         easeFactor |-> r.easeFactor, nextReview |-> clock + interval]

\* calculateSpacedRepetition(quality, ...) with quality = req.body.quality.
\* With quality undefined, undefined < 3 is false, so the else branch runs,
\* and 5 - undefined is NaN, so Math.max(1.3, NaN) is NaN.
Schedule(body, repetitions, easeFactor, interval) ==
    LET r == IF "quality" \in DOMAIN body
             THEN calculateSpacedRepetition(body.quality, repetitions,
                                            easeFactor, interval)
             ELSE [repetitions |-> repetitions + 1,
                   interval    |-> IF repetitions = 0 THEN 1
                                   ELSE IF repetitions = 1 THEN 6
                                   ELSE RoundHundredths(interval * easeFactor),
                   easeFactor  |-> NaN]
    IN  [repetitions |-> r.repetitions, interval |-> r.interval,
         easeFactor |-> r.easeFactor, nextReview |-> clock + r.interval]

\* findOne({_id: cardId, userId: req.userId})
FindCard(userId, body) ==
    IF body.cardId \in DOMAIN flashcards /\ flashcards[body.cardId].userId = userId
    THEN flashcards[body.cardId]
    ELSE NoValue

\* res.json({ nextReview, interval }) after the if block: nextReview and
\* interval are consts of that block and are not in scope, so evaluating the
\* argument throws a ReferenceError and the catch answers with status 500
ReviewResponse(result) ==
    [status |-> 500, error |-> "nextReview is not defined"]

InitReviewVars ==
    /\ clock = 0
    /\ flashcards = [id \in {1, 2} |->
                        StoredCard(IF id = 1 THEN "u1" ELSE "u2", 0)]
    /\ cardsReviewed = [u \in {"u1", "u2"} |-> 0]
    /\ rv = [r \in Reviews |-> NoReview]
    /\ due = NoValue

\* the request up to its first write: body, findOne, 404, scheduler call
ReviewFind(r, in) ==
    /\ rv[r].pc = "idle"
    /\ r > 1 => rv[r - 1].pc # "idle"
    /\ LET found  == FindCard(in.userId, in.body)
           result == Schedule(in.body, OrDefault(found.repetitions, 0),
                              OrDefault(found.easeFactor, DEFAULT_EASE),
                              OrDefault(found.interval, 1))
           base   == [NoReview EXCEPT !.userId = in.userId, !.body = in.body]
       IN  rv' = [rv EXCEPT ![r] =
             IF in.userId = "demo"
             THEN [base EXCEPT !.pc = "done", !.resp = ReviewResponse(NoValue)]
             ELSE IF found = NoValue
             THEN [base EXCEPT !.pc = "done",
                               !.resp = [status |-> 404, error |-> "Card not found"]]
             ELSE [base EXCEPT !.pc = "updateCard", !.card = found,
                               !.result = result,
                               !.set = [repetitions |-> result.repetitions,
                                        interval    |-> result.interval,
                                        easeFactor  |-> result.easeFactor,
                                        nextReview  |-> result.nextReview,
                                        lastReview  |-> clock]]]
    /\ UNCHANGED <<clock, flashcards, cardsReviewed, due>>
    /\ UNCHANGED <<card, hist, helperVars, genVars, sessVars>>

\* flashcards.updateOne({_id: cardId}, {$set: {...}})
ReviewUpdateCard(r) ==
    /\ rv[r].pc = "updateCard"
    /\ flashcards' = [flashcards EXCEPT ![rv[r].body.cardId] =
                        [userId |-> @.userId] @@ rv[r].set]
    /\ rv' = [rv EXCEPT ![r].pc = "updateUser"]
    /\ UNCHANGED <<clock, cardsReviewed, due>>
    /\ UNCHANGED <<card, hist, helperVars, genVars, sessVars>>

\* users.updateOne({_id: req.userId}, {$inc: {'studyStats.cardsReviewed': 1}}),
\* then the response
ReviewUpdateUser(r) ==
    /\ rv[r].pc = "updateUser"
    /\ cardsReviewed' = [cardsReviewed EXCEPT ![rv[r].userId] = @ + 1]
    /\ rv' = [rv EXCEPT ![r].pc = "done", ![r].resp = ReviewResponse(rv[r].result)]
    /\ UNCHANGED <<clock, flashcards, due>>
    /\ UNCHANGED <<card, hist, helperVars, genVars, sessVars>>

\* the subsets find(...).limit(n) can return: all of S when it has at most n
\* documents, else any n of them (no sort is given)
Limit(S, n) ==
    LET RECURSIVE DropTo(_)
        DropTo(T) == IF Cardinality(T) <= n THEN {T}
                     ELSE UNION {DropTo(T \ {x}) : x \in T}
    IN  DropTo(S)

\* find({userId: req.userId, nextReview: {$lte: new Date()}})
DueMatching(userId) ==
    {id \in DOMAIN flashcards :
        flashcards[id].userId = userId /\ flashcards[id].nextReview <= clock}

\* GET /api/spaced-repetition/due/:userId; the cards are named by their ids
DueCards(userId) ==
    /\ \E cards \in (IF userId = "demo" THEN {DemoCardIds}
                     ELSE Limit(DueMatching(userId), DUE_LIMIT)) :
          due' = [userId |-> userId, at |-> clock, cards |-> cards]
    /\ UNCHANGED <<clock, flashcards, cardsReviewed, rv>>
    /\ UNCHANGED <<card, hist, helperVars, genVars, sessVars>>

\* a day passes between requests
AdvanceDay ==
    /\ clock < MaxDays
    /\ \A r \in Reviews : rv[r].pc \in {"idle", "done"}
    /\ clock' = clock + 1
    /\ UNCHANGED <<flashcards, cardsReviewed, rv, due>>
    /\ UNCHANGED <<card, hist, helperVars, genVars, sessVars>>

----------------------------------------------------------------------------
(* The helpers called on their own: generateRequestKey, retryWithBackoff *)

\* owners, id lists, modes and text lengths of the fingerprinted requests
KeyOwners == {<<"u1">>, <<"u2">>}
KeyFileIds == {<<1>>, <<1, 2>>, <<2, 1>>, <<1, 2, 3>>, <<3, 1, 2>>, <<1, 1, 2>>}
KeyModes == {<<"summary">>, <<"quiz">>, <<"quiz", ":", "1">>}
KeyTextLengths == {1, 11}

KeyInputs ==
    [userId : KeyOwners, fileIds : KeyFileIds, mode : KeyModes,
     textLength : KeyTextLengths]

NoFingerprints == [a |-> NoKey, b |-> NoKey]

\* the keys of two requests
Fingerprint ==
    /\ fp.keys = NoFingerprints
    /\ fp' = [fp EXCEPT !.keys =
                 [a |-> generateRequestKey(fp.a.userId, fp.a.fileIds, fp.a.mode,
                                           fp.a.textLength),
                  b |-> generateRequestKey(fp.b.userId, fp.b.fileIds, fp.b.mode,
                                           fp.b.textLength)]]
    /\ UNCHANGED <<card, hist, reviewVars, rt, genVars, sessVars>>

\* error.response?.status || error.status of an error that carries no status
NoStatus == 0

\* statuses of the errors the operation throws
ErrorStatuses == {NoStatus, 400, 404, 408, 429, 499, 500}

\* no failure counts as the last attempt's
LastAttemptNever(attempt, maxRetries) == FALSE

\* if (attempt === maxRetries)
LastAttempt(attempt, maxRetries) == attempt = maxRetries

\* every status is retried
ClientErrorNever(status) == FALSE

\* status >= 400 && status < 500 && ![408, 429].includes(status)
ClientError(status) == status >= 400 /\ status < 500 /\ status \notin {408, 429}

\* retryWithBackoff(operation, maxRetries) entered: attempt = 0
RetryStart(maxRetries) ==
    [pc |-> "calling", maxRetries |-> maxRetries, attempt |-> 0, invoked |-> 0,
     errors |-> <<>>, result |-> NoValue]

IdleRetry == [pc |-> "idle", maxRetries |-> 0, attempt |-> 0, invoked |-> 0,
              errors |-> <<>>, result |-> NoValue]

InitHelperVars ==
    /\ fp = [a |-> CHOOSE in \in KeyInputs : TRUE,
             b |-> CHOOSE in \in KeyInputs : TRUE,
             keys |-> NoFingerprints]
    /\ rt = IdleRetry

\* return await operation(): the operation resolves
OperationReturns ==
    /\ rt.pc = "calling"
    /\ rt' = [rt EXCEPT !.pc = "returned", !.invoked = @ + 1,
                        !.result = [value |-> TRUE]]
    /\ UNCHANGED <<card, hist, reviewVars, fp, genVars, sessVars>>

\* the operation rejects: the catch block
OperationThrows(status) ==
    /\ rt.pc = "calling"
    /\ rt' = [rt EXCEPT
                 !.invoked = @ + 1,
                 !.errors = Append(@, status),
                 !.pc = IF LastAttempt(rt.attempt, rt.maxRetries) \/ ClientError(status)
                        THEN "threw" ELSE "sleeping",
                 !.result = IF LastAttempt(rt.attempt, rt.maxRetries)
                               \/ ClientError(status)
                            THEN [error |-> status] ELSE @]
    /\ UNCHANGED <<card, hist, reviewVars, fp, genVars, sessVars>>

\* the delay (at most 2000 ms) elapses; attempt++ and the loop condition
DelayElapsed ==
    /\ rt.pc = "sleeping"
    /\ rt' = [rt EXCEPT
                 !.attempt = @ + 1,
                 !.pc = IF rt.attempt + 1 <= rt.maxRetries THEN "calling"
                        ELSE "returned",
                 !.result = IF rt.attempt + 1 <= rt.maxRetries THEN @
                            ELSE [undefined |-> TRUE]]
    /\ UNCHANGED <<card, hist, reviewVars, fp, genVars, sessVars>>

----------------------------------------------------------------------------
(* Specifications *)

InitCard ==
    InitCardVars /\ InitReviewVars /\ InitHelperVars /\ InitGenVars /\ InitSessVars

NextCard == \E quality \in Qualities : Review(quality)

SpecCard == InitCard /\ [][NextCard]_vars

\* a card that is not being reviewed
IdleCard == [repetitions |-> 0, easeFactor |-> 250, interval |-> 1]

InitGen ==
    /\ InitGenVars /\ InitSessVars
    /\ card = IdleCard /\ hist = <<>> /\ InitReviewVars /\ InitHelperVars

NextGen ==
    \/ \E r \in Requests, in \in RequestInputs :
           GenerateStart(r, in.userId, in.fileIds, in.mode)
    \/ \E g \in Requests, dbOk \in BOOLEAN :
           \E failed \in SUBSET gen[g].tasks : Produce(g, failed, dbOk)
    \/ \E r \in Requests : OwnerResume(r)
    \/ \E r \in Requests : WaiterResume(r)
    \/ Tick
    \/ Sweep

SpecGen == InitGen /\ [][NextGen]_vars

\* every LLM task settles (each races a 30 s timeout), every database call
\* returns, and every due promise reaction runs
FairSpecGen ==
    /\ SpecGen
    /\ WF_vars(\E g \in Requests, dbOk \in BOOLEAN :
                    \E failed \in SUBSET gen[g].tasks : Produce(g, failed, dbOk))
    /\ \A r \in Requests : WF_vars(OwnerResume(r))
    /\ \A r \in Requests : WF_vars(WaiterResume(r))

\* /api/generate over a time that spans two cleanups
NextLong ==
    \/ \E r \in Requests, in \in RequestInputs :
           GenerateStart(r, in.userId, in.fileIds, in.mode)
    \/ \E g \in Requests, dbOk \in BOOLEAN :
           \E failed \in SUBSET gen[g].tasks : Produce(g, failed, dbOk)
    \/ \E r \in Requests : OwnerResume(r)
    \/ \E r \in Requests : WaiterResume(r)
    \/ LongTick
    \/ Sweep

SpecLong == InitGen /\ [][NextLong]_vars

InitSess ==
    /\ InitSessVars /\ InitGenVars
    /\ card = IdleCard /\ hist = <<>> /\ InitReviewVars /\ InitHelperVars

NextSess ==
    \/ \E sid \in SessionIds, genOk \in BOOLEAN : CreateSession(sid, genOk)
    \/ \E slot \in Slots, sid \in SessionIds, raw \in RawLimits :
           NextStart(slot, sid, raw)
    \/ \E slot \in Slots : NextFind(slot)
    \/ \E slot \in Slots : NextMark(slot)
    \/ \E slot \in Slots : NextReadSession(slot)
    \/ \E slot \in Slots, genOk \in BOOLEAN : NextGenerate(slot, genOk)
    \/ \E slot \in Slots : NextInsert(slot)
    \/ \E slot \in Slots : NextUpdate(slot)

SpecSess == InitSess /\ [][NextSess]_vars

\* the sessions requested by their creator and by another authenticated user
NextOwner ==
    \/ \E sid \in SessionIds, genOk \in BOOLEAN : CreateSession(sid, genOk)
    \/ \E slot \in Slots, sid \in SessionIds, raw \in RawLimits, userId \in Users :
           NextStartBy(slot, sid, raw, userId)
    \/ \E slot \in Slots : NextFind(slot)
    \/ \E slot \in Slots : NextMark(slot)
    \/ \E slot \in Slots : NextReadSession(slot)
    \/ \E slot \in Slots, genOk \in BOOLEAN : NextGenerate(slot, genOk)
    \/ \E slot \in Slots : NextInsert(slot)
    \/ \E slot \in Slots : NextUpdate(slot)

SpecOwner == InitSess /\ [][NextOwner]_vars

InitReview ==
    /\ InitReviewVars /\ InitGenVars /\ InitSessVars
    /\ card = IdleCard /\ hist = <<>> /\ InitHelperVars

NextReview ==
    \/ \E r \in Reviews, in \in ReviewInputs : ReviewFind(r, in)
    \/ \E r \in Reviews : ReviewUpdateCard(r)
    \/ \E r \in Reviews : ReviewUpdateUser(r)
    \/ AdvanceDay

SpecReview == InitReview /\ [][NextReview]_vars

InitDue ==
    /\ clock = 0
    /\ flashcards \in InitFlashcards
    /\ cardsReviewed = [u \in {"u1", "u2"} |-> 0]
    /\ rv = [r \in Reviews |-> NoReview]
    /\ due = NoValue
    /\ InitGenVars /\ InitSessVars
    /\ card = IdleCard /\ hist = <<>> /\ InitHelperVars

NextDue ==
    \/ \E userId \in {"u1", "u2", "demo"} : DueCards(userId)
    \/ AdvanceDay

SpecDue == InitDue /\ [][NextDue]_vars

\* generateRequestKey applied to two requests drawn from KeyInputs
InitKey ==
    /\ fp \in [a : KeyInputs, b : KeyInputs, keys : {NoFingerprints}]
    /\ rt = IdleRetry
    /\ InitReviewVars /\ InitGenVars /\ InitSessVars
    /\ card = IdleCard /\ hist = <<>>

NextKey == Fingerprint

SpecKey == InitKey /\ [][NextKey]_vars

\* one call of retryWithBackoff with each maxRetries up to MaxRetries
InitRetry ==
    /\ rt \in {RetryStart(maxRetries) : maxRetries \in 0..MaxRetries}
    /\ fp = [a |-> CHOOSE in \in KeyInputs : TRUE,
             b |-> CHOOSE in \in KeyInputs : TRUE,
             keys |-> NoFingerprints]
    /\ InitReviewVars /\ InitGenVars /\ InitSessVars
    /\ card = IdleCard /\ hist = <<>>

NextRetry ==
    \/ OperationReturns
    \/ \E status \in ErrorStatuses : OperationThrows(status)
    \/ DelayElapsed

SpecRetry == InitRetry /\ [][NextRetry]_vars

\* the operation settles (each one races its request against a timeout) and
\* the timer of the delay fires
FairSpecRetry ==
    /\ SpecRetry
    /\ WF_vars(OperationReturns \/ \E status \in ErrorStatuses : OperationThrows(status))
    /\ WF_vars(DelayElapsed)

----------------------------------------------------------------------------
(* Properties of the scheduler *)

Reviewed == 1..Len(hist)

\* C8: from a card with easeFactor >= 1.3, the easeFactor after every review
\* with quality in 0..5 is >= 1.3.
C8_EaseFactorFloor ==
    /\ card.easeFactor >= EaseFloor
    /\ \A i \in Reviewed : hist[i].after.easeFactor >= EaseFloor

\* a review whose SM-2 decrement would have taken the ease factor below 1.3
C8_Witness ==
    \E i \in Reviewed :
        /\ hist[i].before.easeFactor + EaseDelta(hist[i].quality) < EaseFloor
        /\ hist[i].after.easeFactor = EaseFloor

\* C9: a review with quality 0, 1 or 2 yields repetitions = 0 and interval = 1,
\* whatever the card's state was.
C9_FailureResets ==
    \A i \in Reviewed :
        hist[i].quality \in {0, 1, 2} =>
            /\ hist[i].after.repetitions = 0
            /\ hist[i].after.interval = 1

\* a failed review of a card that had a streak and a long interval
C9_Witness ==
    \E i \in Reviewed :
        /\ hist[i].quality \in {0, 1, 2}
        /\ hist[i].before.repetitions >= 2
        /\ hist[i].before.interval > 1
        /\ hist[i].after.repetitions = 0
        /\ hist[i].after.interval = 1

\* C10: a review with quality 3, 4 or 5 increments repetitions and sets the
\* interval by the old repetitions: 1 when 0, 6 when 1, otherwise
\* round(old interval * old easeFactor); three consecutive quality-5 reviews
\* from repetitions = 0 give 1, 6 and round(6 * easeFactor after the second).
C10_PassProgression ==
    /\ \A i \in Reviewed :
          hist[i].quality \in {3, 4, 5} =>
              /\ hist[i].after.repetitions = hist[i].before.repetitions + 1
              /\ hist[i].before.repetitions = 0 => hist[i].after.interval = 1
              /\ hist[i].before.repetitions = 1 => hist[i].after.interval = 6
              /\ hist[i].before.repetitions >= 2 =>
                    hist[i].after.interval =
                        (hist[i].before.interval * hist[i].before.easeFactor + 50) \div 100
    /\ \A i \in Reviewed :
          /\ i + 2 <= Len(hist)
          /\ hist[i].before.repetitions = 0
          /\ \A j \in i..(i + 2) : hist[j].quality = 5
          => /\ hist[i].after.interval = 1
             /\ hist[i + 1].after.interval = 6
             /\ hist[i + 2].after.interval =
                    (6 * hist[i + 1].after.easeFactor + 50) \div 100

\* three consecutive quality-5 reviews of the default card: the third interval
\* is round(6 * 2.7) = 16
C10_Witness ==
    /\ Len(hist) >= 3
    /\ hist[1].before = [repetitions |-> 0, easeFactor |-> 250, interval |-> 1]
    /\ \A j \in 1..3 : hist[j].quality = 5
    /\ hist[3].after.interval = 16

\* the SM-2 ease change of each quality, in hundredths
SM2Change == [q \in Qualities |->
    CASE q = 5 -> 10 [] q = 4 -> 0 [] q = 3 -> -14
      [] q = 2 -> -32 [] q = 1 -> -54 [] q = 0 -> -80]

\* the qualities of the first n reviews
QualitiesOf(n) == [i \in 1..n |-> hist[i].quality]

\* C11: every review, pass or fail, changes the ease factor by the SM-2 amount
\* of its quality before flooring at 1.3; from the new card the reviews
\* 5, 5, 2 give ease factors 2.6, 2.7, 2.38 with (repetitions, interval)
\* (1, 1), (2, 6), (0, 1).
C11_EaseUpdate ==
    /\ \A i \in Reviewed :
          hist[i].after.easeFactor =
              Max(130, hist[i].before.easeFactor + SM2Change[hist[i].quality])
    /\ (Len(hist) >= 3 /\ hist[1].before = IdleCard
           /\ QualitiesOf(3) = <<5, 5, 2>>) =>
          /\ hist[1].after = [repetitions |-> 1, interval |-> 1, easeFactor |-> 260]
          /\ hist[2].after = [repetitions |-> 2, interval |-> 6, easeFactor |-> 270]
          /\ hist[3].after = [repetitions |-> 0, interval |-> 1, easeFactor |-> 238]

\* the new card has been reviewed 5, 5, 2
C11_Witness ==
    /\ Len(hist) >= 3
    /\ hist[1].before = IdleCard
    /\ QualitiesOf(3) = <<5, 5, 2>>
    /\ card.easeFactor = 238

\* C12: from a card with interval >= 1, ease factor >= 1.3 and
\* repetitions >= 0, every review with a quality in 0..5 leaves an integer
\* interval >= 1 and repetitions >= 0.
C12_IntervalAndRepetitions ==
    /\ card.interval \in Nat /\ card.interval >= 1
    /\ card.repetitions \in Nat
    /\ \A i \in Reviewed :
          /\ hist[i].after.interval \in Nat /\ hist[i].after.interval >= 1
          /\ hist[i].after.repetitions \in Nat

\* a card at the floor with interval 1 has failed and then passed three times
C12_Witness ==
    /\ Len(hist) = 4
    /\ hist[1].before.easeFactor = 130 /\ hist[1].before.interval = 1
    /\ hist[1].quality = 0
    /\ \A i \in 2..4 : hist[i].quality = 3
    /\ card.interval > 1

\* C40: in any sequence of reviews that starts from the default card, a
\* passing review never yields an interval smaller than the interval before
\* it; only a failing review shortens the interval.
C40_PassNeverShortens ==
    (Len(hist) >= 1 /\ hist[1].before = IdleCard) =>
        \A i \in Reviewed :
            hist[i].after.interval < hist[i].before.interval =>
                hist[i].quality < 3

\* the default card has passed three times, the interval growing each time,
\* and has then failed
C40_Witness ==
    /\ Len(hist) = 4
    /\ hist[1].before = IdleCard
    /\ \A i \in 1..3 : hist[i].quality >= 3
    /\ hist[3].after.interval > hist[3].before.interval
    /\ hist[4].quality < 3
    /\ hist[4].after.interval < hist[4].before.interval

----------------------------------------------------------------------------
(* Properties of the flashcard handlers *)

\* req.body.quality is present and an integer of 0..5
ValidQuality(body) == "quality" \in DOMAIN body /\ body.quality \in Qualities

\* C13: a review request for an existing card of the caller with a quality
\* in 0..5 completes successfully and returns the interval and the
\* next-review date the scheduler computed, the values that were persisted.
C13_ReviewReturnsSchedule ==
    \A r \in Reviews :
        (rv[r].pc = "done" /\ rv[r].card # NoValue /\ ValidQuality(rv[r].body)) =>
            /\ rv[r].resp.status = 200
            /\ rv[r].resp.interval = rv[r].set.interval
            /\ rv[r].resp.nextReview = rv[r].set.nextReview

\* C14: a review request whose quality is missing or outside 0..5 is
\* rejected: each of its steps leaves the stored cards and the cardsReviewed
\* counters unchanged and ends the request with a 4xx response.
C14_InvalidQualityRejected ==
    [][\A r \in Reviews :
          (rv'[r] # rv[r] /\ ~ValidQuality(rv'[r].body)) =>
              /\ flashcards' = flashcards
              /\ cardsReviewed' = cardsReviewed
              /\ rv'[r].pc = "done"
              /\ rv'[r].resp.status \in 400..499]_vars

\* the requests whose scheduler call has been made
Scheduled == {r \in Reviews : rv[r].result # NoValue}

\* the arguments of the scheduler call of request r
ScheduleArgs(r) ==
    <<rv[r].body, OrDefault(rv[r].card.repetitions, 0),
      OrDefault(rv[r].card.easeFactor, DEFAULT_EASE),
      OrDefault(rv[r].card.interval, 1)>>

\* the repetitions, interval and easeFactor of a scheduler result or a card
Scheduling(c) ==
    [repetitions |-> c.repetitions, interval |-> c.interval,
     easeFactor |-> c.easeFactor]

\* two scheduler calls with the same arguments returned the same
\* repetitions, interval and easeFactor
SameArgsSameResult ==
    \A r1, r2 \in Scheduled :
        ScheduleArgs(r1) = ScheduleArgs(r2) =>
            Scheduling(rv[r1].result) = Scheduling(rv[r2].result)

C24_NoLostReview ==
    \A r1, r2 \in Reviews :
        (/\ r1 # r2
         /\ rv[r1].pc \in {"updateUser", "done"} /\ rv[r1].set # NoValue
         /\ rv[r2].pc \in {"updateUser", "done"} /\ rv[r2].set # NoValue
         /\ rv[r1].body.cardId = rv[r2].body.cardId) =>
            \/ Scheduling(rv[r2].card) = Scheduling(rv[r1].set)
            \/ Scheduling(rv[r1].card) = Scheduling(rv[r2].set)

\* C25: when a review request ends in an error response, the stored card and
\* the owner's cardsReviewed counter are as before the request: with no
\* other request started, the card is the one the request found and the
\* counter is still 0.
C25_ErrorLeavesCardUnchanged ==
    \A r \in Reviews :
        (/\ rv[r].pc = "done" /\ rv[r].resp.status >= 400
         /\ rv[r].card # NoValue
         /\ \A o \in Reviews \ {r} : rv[o].pc = "idle") =>
            /\ flashcards[rv[r].body.cardId] = rv[r].card
            /\ cardsReviewed[rv[r].userId] = 0

\* C19: the due-cards query of a stored owner returns exactly the owner's
\* cards whose nextReview is at most the time of the query: none that is not
\* due or is another owner's, and every due card of the owner.
C19_DueExactlyOwnersDue ==
    (due # NoValue /\ due.userId # "demo") =>
        due.cards = {id \in DOMAIN flashcards :
                        /\ flashcards[id].userId = due.userId
                        /\ flashcards[id].nextReview <= due.at}

----------------------------------------------------------------------------
(* Properties of /api/generate *)

\* the generation failed: the promise was rejected, or a task was rejected
\* and its part is missing from the content
GenerationFailed(g) ==
    \/ gen[g].state = "rejected"
    \/ gen[g].state = "fulfilled" /\ gen[g].value.content # gen[g].tasks

\* C2: at most one generation per fingerprint runs at any time, and a running
\* generation is the registered in-flight owner of its fingerprint: the check
\* for an entry and the registration are one step.
C2_AtMostOneProduce ==
    /\ \A g1, g2 \in Requests :
          g1 # g2 /\ Running(g1) /\ Running(g2) => gen[g1].key # gen[g2].key
    /\ \A g \in Requests :
          Running(g) => /\ gen[g].key \in DOMAIN inflightRequests
                        /\ inflightRequests[gen[g].key] = g

\* a second request with the same fingerprint arrived while the first one's
\* generation was running, and attached to it
C2_Witness ==
    \E r \in Requests :
        /\ req[r].pc = "waiting"
        /\ Running(req[r].promise)
        /\ gen[req[r].promise].key = req[r].key

\* C3: a request attached to an in-flight generation answers with that
\* generation's outcome, the same result object or the same error as the
\* owner's response; and every attached request is answered.
C3_WaitersShareOutcome ==
    /\ [](\A r \in Requests :
            req[r].pc = "done" /\ req[r].resp.source = "inflight" =>
                LET g == req[r].promise
                IN /\ Settled(g)
                   /\ req[r].resp.body = gen[g].value
                   /\ req[r].resp.status = (IF gen[g].state = "fulfilled" THEN 200 ELSE 500)
                   /\ req[g].pc = "done" =>
                         /\ req[g].resp.body = req[r].resp.body
                         /\ req[g].resp.status = req[r].resp.status)
    /\ \A r \in Requests : (req[r].pc = "waiting") ~> (req[r].pc = "done")

\* a waiter and its owner have both answered with the error of a failed generation
C3_Witness ==
    \E r \in Requests :
        /\ req[r].pc = "done"
        /\ req[r].resp.source = "inflight"
        /\ req[r].resp.status = 500
        /\ req[req[r].promise].pc = "done"
        /\ req[req[r].promise].resp.status = 500

\* C4: a failed generation is never cached: the cache never holds the result of
\* a generation in which a task failed or that was rejected.
C4_FailedNeverCached ==
    \A g \in Requests :
        GenerationFailed(g) =>
            ~(/\ gen[g].key \in DOMAIN contentCache
              /\ contentCache[gen[g].key].data.sessionId = g)

\* C16: when a generation task of a generate request fails, the request
\* surfaces a failure to its caller and to every coalesced waiter: no request
\* that owned or joined the generation is answered with a success.
C16_TaskFailureSurfaces ==
    \A r \in Requests :
        (/\ req[r].pc = "done"
         /\ req[r].promise # 0
         /\ GenerationFailed(req[r].promise)) => req[r].resp.status # 200

\* C5: a registry entry exists only while its owner awaits the generation (it
\* is removed when the owner's request completes, on success and on failure),
\* and every registered entry is eventually removed.
C5_RegistryCleanup ==
    /\ [](\A k \in DOMAIN inflightRequests :
            /\ req[inflightRequests[k]].pc = "owner"
            /\ req[inflightRequests[k]].key = k)
    /\ \A k \in AllKeys :
          (k \in DOMAIN inflightRequests) ~> (k \notin DOMAIN inflightRequests)

\* after a failed generation whose owner answered 500, a later request with
\* the same fingerprint is the owner of a new generation
C5_Witness ==
    \E r1, r2 \in Requests :
        /\ r1 # r2
        /\ req[r1].pc = "done"
        /\ req[r1].resp.source = "own"
        /\ req[r1].resp.status = 500
        /\ req[r2].key = req[r1].key
        /\ req[r2].pc = "owner"
        /\ inflightRequests[req[r2].key] = r2

\* C6: a response served from the cache is younger than the TTL; a request
\* that finds an entry whose age has reached the TTL is not answered from the
\* cache: it owns a new generation or is attached to one.
C6_StaleNeverServed ==
    \A r \in Requests :
        /\ req[r].pc = "done" /\ req[r].resp.source = "cache" =>
              /\ req[r].resp.age < CACHE_TTL
              /\ ~req[r].staleAtStart
        /\ req[r].staleAtStart =>
              /\ req[r].promise # 0
              /\ gen[req[r].promise].state # "none"
              /\ gen[req[r].promise].key = req[r].key

\* a request found the entry of an earlier success still in the cache at the
\* age of the TTL or more and started a generation of its own
C6_Witness ==
    \E r \in Requests :
        /\ req[r].staleAtStart
        /\ req[r].key \in DOMAIN contentCache
        /\ req[r].pc = "owner"
        /\ Running(r)

----------------------------------------------------------------------------
(* Properties of /api/generate: cache hits, cleanup, lookup order, owners *)

\* request r runs the synchronous part of the handler in this step
Starts(r) == req[r].pc = "idle" /\ req'[r].pc # "idle"

\* a cache entry younger than five minutes
FreshEntry(key) ==
    key \in DOMAIN contentCache /\ now - contentCache[key].timestamp < 300000

\* C32: a generate request that finds a fresh cache entry (younger than five
\* minutes) and no in-flight entry for its fingerprint answers with the cached
\* result and neither starts a generation, nor registers an in-flight entry,
\* nor stores a study session, nor changes the cache entry or its timestamp;
\* and only such an entry is answered from the cache.
C32_CacheHitChangesNothing ==
    [][\A r \in Requests :
          Starts(r) =>
              LET key == req'[r].key IN
              /\ (FreshEntry(key) /\ key \notin DOMAIN inflightRequests) =>
                     /\ req'[r].pc = "done"
                     /\ req'[r].resp.status = 200
                     /\ req'[r].resp.body = contentCache[key].data
                     /\ UNCHANGED <<inflightRequests, gen, studySessions,
                                    contentCache>>
              /\ (req'[r].pc = "done") =>
                     /\ FreshEntry(key)
                     /\ req'[r].resp.source = "cache"
                     /\ UNCHANGED <<inflightRequests, gen, studySessions,
                                    contentCache>>]_vars

\* the second request was answered from the entry the first one cached
C32_Witness ==
    /\ req[1].pc = "done" /\ req[1].resp.source = "own"
    /\ req[2].pc = "done" /\ req[2].resp.source = "cache"
    /\ req[2].resp.body = req[1].resp.body
    /\ req[2].resp.age > 0
    /\ studySessions = {1}
    /\ gen[2] = NoGen

\* the cleanup timer fires in this step
Sweeps == nextSweep' # nextSweep

\* C34: each sweep removes every cache entry older than five minutes and none
\* that is five minutes old or younger; the sweep runs every ten minutes, so
\* no entry stays in the cache more than fifteen minutes after it was written.
C34_SweepRemovesOldOnly ==
    /\ [][Sweeps =>
            /\ nextSweep' = nextSweep + 600000
            /\ DOMAIN contentCache' =
                   {k \in DOMAIN contentCache :
                       now - contentCache[k].timestamp <= 300000}
            /\ \A k \in DOMAIN contentCache' : contentCache'[k] = contentCache[k]]_vars
    /\ [](\A k \in DOMAIN contentCache :
              now - contentCache[k].timestamp <= 900000)

\* the second sweep is due: an entry that was exactly five minutes old at the
\* first sweep was kept by it and is now fifteen minutes old
C34_Witness ==
    /\ nextSweep = 2 * SWEEP_PERIOD
    /\ now = nextSweep
    /\ \E k \in DOMAIN contentCache :
           now - contentCache[k].timestamp = CACHE_TTL + SWEEP_PERIOD

\* what a handler that looks into the cache before the registry does
CacheFirst(key) ==
    IF FreshEntry(key) THEN "cache"
    ELSE IF key \in DOMAIN inflightRequests THEN "attach"
    ELSE "produce"

\* C35: the handler consults the in-flight registry before the cache, the
\* other order consults the cache first; in every reachable state and for
\* every request both orders return the same result and start the same number
\* of generations.
C35_LookupOrderEquivalent ==
    [][\A r \in Requests :
          Starts(r) =>
              LET key == req'[r].key
                  other == CacheFirst(key)
              IN
              /\ (req'[r].pc = "owner") <=> (other = "produce")
              /\ (req'[r].pc = "done") =>
                     other = "cache" /\ req'[r].resp.body = contentCache[key].data
              /\ (req'[r].pc = "waiting") =>
                     \/ other = "attach"
                     \/ /\ other = "cache"
                        /\ AwaitOutcome(req'[r].promise) =
                               [status |-> 200, body |-> contentCache[key].data]]_vars

\* a request attached to a generation that had already cached its result
C35_Witness ==
    /\ req[1].pc = "owner" /\ Settled(1)
    /\ req[2].pc = "waiting" /\ req[2].promise = 1
    /\ FreshEntry(req[2].key)
    /\ contentCache[req[2].key].data = gen[1].value

\* C38: a result generated for one owner is never returned to a request of a
\* different owner, neither from the cache nor by attaching to an in-flight
\* generation, even when file ids, mode and text length are the same.
C38_ResultsStayWithOwner ==
    \A r \in Requests :
        /\ (req[r].pc = "done" /\ req[r].resp.status = 200) =>
               req[req[r].resp.body.sessionId].userId = req[r].userId
        /\ (req[r].pc = "waiting") => req[req[r].promise].userId = req[r].userId

\* two owners sent the same ids and mode with texts of the same length; the
\* second one got a generation of its own while the first result was cached
C38_Witness ==
    /\ req[1].pc = "done" /\ req[2].pc = "done"
    /\ req[1].userId # req[2].userId
    /\ req[1].resp.status = 200 /\ req[2].resp.status = 200
    /\ req[1].resp.body.sessionId = 1 /\ req[2].resp.body.sessionId = 2
    /\ FreshEntry(req[1].key) /\ FreshEntry(req[2].key)
    /\ contentCache[req[1].key].timestamp < contentCache[req[2].key].timestamp

----------------------------------------------------------------------------
(* Properties of the question-batch sessions *)

Delivered(i) == {calls[i].questions[n] : n \in 1..Len(calls[i].questions)}

\* call j began before call i had completed (i completed first)
Overlap(i, j) == i < j /\ calls[j].startN < i

\* C1: no question id is returned by a nextQuestions call if an earlier
\* nextQuestions call of the same session already returned it.
C1_NoRepeatDelivery ==
    \A i, j \in 1..Len(calls) :
        i < j /\ calls[i].id = calls[j].id => Delivered(i) \cap Delivered(j) = {}

\* C7: two overlapping nextQuestions requests on the same session never both
\* return the same question.
C7_NoConcurrentDouble ==
    \A i, j \in 1..Len(calls) :
        Overlap(i, j) /\ calls[i].id = calls[j].id =>
            Delivered(i) \cap Delivered(j) = {}

\* the unseen questions the in-memory cache holds for a session
CacheUnseen(sid) ==
    IF sid \in DOMAIN questionSessionCache
    THEN Len(FilterUnseen(questionSessionCache[sid])) ELSE 0

\* the unseen questions of all stored batches of a session
StoredUnseen(sid) ==
    Cardinality({<<b, i>> \in (1..Len(question_batches)) \X (1..BATCH_SIZE) :
                    /\ question_batches[b].sessionId = sid
                    /\ question_batches[b].questions[i].status = "unseen"})

\* C15: a nextQuestions request whose limit is below 1 is rejected before any
\* question is marked, returned or generated: no request proceeds and no
\* call completes with such a limit.
C15_LimitBelowOneRejected ==
    /\ \A slot \in Slots : nq[slot].pc # "idle" => nq[slot].limit >= 1
    /\ \A i \in 1..Len(calls) : calls[i].limit >= 1

\* C20: the remaining value of every nextQuestions call that returns
\* questions is the number of questions still unseen after the call, in the
\* cache on the cache and new-batch paths and in the stored batches on the
\* stored path, and is never negative.
C20_RemainingIsUnseenCount ==
    [][Len(calls') = Len(calls) + 1 =>
          LET c == calls'[Len(calls')]
          IN  \A sid \in SessionIds : c.id = sid =>
                /\ c.remaining >= 0
                /\ c.path \in {"cache", "new"} => c.remaining = CacheUnseen(sid)'
                /\ c.path = "stored" => c.remaining = StoredUnseen(sid)']_vars

\* the stored batches of a session, in insertion order
BatchesOf(sid) ==
    LET RECURSIVE Pick(_)
        Pick(n) == IF n = 0 THEN <<>>
                   ELSE IF question_batches[n].sessionId = sid
                        THEN Append(Pick(n - 1), question_batches[n])
                        ELSE Pick(n - 1)
    IN  Pick(Len(question_batches))

\* C17: the batches stored for a session carry the numbers 1, 2, ..., k
\* exactly once each, in the order in which they were appended.
C17_BatchNumbersConsecutive ==
    \A sid \in SessionIds :
        \A n \in 1..Len(BatchesOf(sid)) : BatchesOf(sid)[n].batchNumber = n

\* no other nextQuestions request was running while call i ran
Isolated(i) ==
    /\ calls[i].startN = i - 1
    /\ \A k \in (i + 1)..Len(calls) : calls[k].startN >= i
    /\ \A slot \in Slots : nq[slot].pc # "idle" => nq[slot].startN >= i

\* a call has just ended in the catch block of the handler
FailedStep == Len(calls') = Len(calls) + 1 /\ calls'[Len(calls')].path = "error"

\* the call that follows a failed one, neither of them overlapping another
\* request, reaches the generator again
RetryGeneratesAgain ==
    \A i \in 1..(Len(calls) - 1) :
        (calls[i].path = "error" /\ Isolated(i) /\ Isolated(i + 1)) =>
            calls[i + 1].path \in {"new", "error"}

\* C18: when the generator fails while nextQuestions produces a new batch,
\* the call ends with an error and no questions, the step stores no batch and
\* changes neither the session record nor the in-memory cache, and the next
\* call attempts generation again.
C18_GeneratorFailure ==
    [][/\ FailedStep =>
            /\ calls'[Len(calls')].questions = <<>>
            /\ question_batches' = question_batches
            /\ study_sessions' = study_sessions
            /\ questionSessionCache' = questionSessionCache
       /\ RetryGeneratesAgain']_vars

\* a failed call was followed by a call that generated and stored batch 2
C18_Witness ==
    \E i \in 1..(Len(calls) - 1) :
        /\ calls[i].path = "error" /\ Isolated(i) /\ Isolated(i + 1)
        /\ calls[i + 1].path = "new"
        /\ Len(question_batches) = 2

\* C22: the questions that session creation returned to the client are
\* delivered: no nextQuestions call on that session returns any of them.
C22_InitialQuestionsNotRepeated ==
    \A i \in 1..Len(calls) :
        calls[i].id \in DOMAIN created =>
            Delivered(i) \cap SeqRange(created[calls[i].id].initialQuestions) = {}

\* the status of question id in the stored batches
StoredStatus(id) ==
    LET at == CHOOSE p \in (1..Len(question_batches)) \X (1..BATCH_SIZE) :
                  question_batches[p[1]].questions[p[2]].id = id
    IN  question_batches[at[1]].questions[at[2]].status

\* C23: every question a nextQuestions call has returned is recorded as shown
\* in the stored batch of its session once the call has completed.
C23_DeliveredStoredAsShown ==
    \A i \in 1..Len(calls) : \A id \in Delivered(i) : StoredStatus(id) = "shown"

\* C26: every session record in the store has its batch 1 stored with it.
C26_SessionHasFirstBatch ==
    \A sid \in DOMAIN study_sessions :
        \E b \in 1..Len(question_batches) :
            /\ question_batches[b].sessionId = sid
            /\ question_batches[b].batchNumber = 1

\* no nextQuestions request is between its first read and its response
Quiescent == \A slot \in Slots : nq[slot].pc = "idle"

\* the number of questions stored across the batches of a session
StoredCount(sid) ==
    Cardinality({<<b, i>> \in (1..Len(question_batches)) \X (1..BATCH_SIZE) :
                    question_batches[b].sessionId = sid})

\* C27: overlapping nextQuestions requests on an exhausted session append at
\* most one batch: no two batches of a session have the same batch number,
\* and once the requests have ended totalGenerated counts every stored
\* question.
C27_OverlapAppendsOneBatch ==
    /\ \A b1, b2 \in 1..Len(question_batches) :
          (/\ b1 # b2
           /\ question_batches[b1].sessionId = question_batches[b2].sessionId) =>
              question_batches[b1].batchNumber # question_batches[b2].batchNumber
    /\ Quiescent =>
          \A sid \in DOMAIN study_sessions :
              study_sessions[sid].totalGenerated = StoredCount(sid)

\* C28: the generator is called, and a batch is appended, only when the
\* session has no unseen question left, in the cache and in the stored
\* batches.
C28_GenerateOnlyWhenExhausted ==
    [][\A slot \in Slots, sid \in SessionIds :
          (/\ nq[slot].id = sid
           /\ \/ nq[slot].pc = "readSession" /\ nq'[slot].pc = "generate"
              \/ nq[slot].pc = "insert" /\ nq'[slot].pc = "update") =>
              CacheUnseen(sid) = 0 /\ StoredUnseen(sid) = 0]_vars

\* C30: once created, and between nextQuestions calls, the session record
\* agrees with its batches: totalGenerated is the number of stored questions
\* and currentBatch is the highest stored batch number.
C30_SessionAgreesWithBatches ==
    Quiescent =>
        \A sid \in DOMAIN created :
            created[sid].status = 200 =>
                /\ study_sessions[sid].totalGenerated = StoredCount(sid)
                /\ \A n \in 1..Len(BatchesOf(sid)) :
                      BatchesOf(sid)[n].batchNumber <= study_sessions[sid].currentBatch
                /\ \E n \in 1..Len(BatchesOf(sid)) :
                      BatchesOf(sid)[n].batchNumber = study_sessions[sid].currentBatch

\* ids is the sequence of the first L unseen questions of qs, in stored order
FirstUnseen(ids, qs, L) ==
    LET UnseenBefore(i) ==
            Cardinality({j \in 1..(i - 1) : qs[j].status = "unseen"})
        expected == {i \in 1..Len(qs) :
                        qs[i].status = "unseen" /\ UnseenBefore(i) < L}
    IN  /\ Len(ids) = Cardinality(expected)
        /\ \A n \in 1..Len(ids) :
              \E i \in expected : qs[i].id = ids[n] /\ UnseenBefore(i) = n - 1

\* the ids of the questions whose status differs between qs and rs
StatusChanged(qs, rs) ==
    {qs[i].id : i \in {j \in 1..Len(qs) : rs[j].status # qs[j].status}}

\* C29: a nextQuestions call with limit L >= 1 returns at most L questions,
\* the first unseen ones of the batch as the call read it, in stored order,
\* and only the returned questions change status, on the cache path, the
\* stored-batch path and the new-batch path.
C29_FirstUnseenUpToLimit ==
    [][\A sid \in SessionIds :
        /\ \A slot \in Slots :
              (/\ nq[slot].pc = "find" /\ nq'[slot].pc = "mark"
               /\ nq[slot].id = sid /\ nq[slot].limit >= 1) =>
                  \E b \in 1..Len(question_batches) :
                      /\ question_batches[b].sessionId = sid
                      /\ FirstUnseen(nq'[slot].take,
                                     question_batches[b].questions, nq[slot].limit)
        /\ (/\ Len(calls') = Len(calls) + 1
            /\ calls'[Len(calls')].id = sid
            /\ calls'[Len(calls')].limit >= 1) =>
              LET c == calls'[Len(calls')]
                  returned == {c.questions[n] : n \in 1..Len(c.questions)}
              IN  /\ Len(c.questions) <= c.limit
                  /\ c.path = "cache" =>
                        /\ FirstUnseen(c.questions, questionSessionCache[sid], c.limit)
                        /\ StatusChanged(questionSessionCache[sid],
                                         questionSessionCache'[sid]) = returned
                        /\ question_batches' = question_batches
                  /\ c.path = "stored" =>
                        /\ \A b \in 1..Len(question_batches) :
                              StatusChanged(question_batches[b].questions,
                                            question_batches'[b].questions)
                                  \subseteq returned
                        /\ questionSessionCache' = questionSessionCache
                  /\ c.path = "new" =>
                        /\ \E slot \in Slots :
                              /\ nq[slot].pc = "update" /\ nq'[slot].pc = "idle"
                              /\ FirstUnseen(c.questions, nq[slot].newBatch, c.limit)
                        /\ Ids(FilterUnseen(questionSessionCache'[sid]))
                               = Ids(questionSessionCache'[sid]) \ returned
                        /\ question_batches' = question_batches]_vars

\* calls with limit 5 and 20 have returned questions on the cache path, the
\* stored-batch path and the new-batch path
C29_Witness ==
    /\ \E i \in 1..Len(calls) :
          calls[i].path = "cache" /\ calls[i].limit = 5 /\ Len(calls[i].questions) = 5
    /\ \E i \in 1..Len(calls) :
          calls[i].path = "stored" /\ Len(calls[i].questions) >= 1
    /\ \E i \in 1..Len(calls) :
          calls[i].path = "new" /\ Len(calls[i].questions) >= 1

----------------------------------------------------------------------------
(* Properties of generateRequestKey and retryWithBackoff *)

\* number of times id x occurs in the list s
RECURSIVE Occurrences(_, _)
Occurrences(x, s) ==
    IF s = <<>> THEN 0
    ELSE (IF Head(s) = x THEN 1 ELSE 0) + Occurrences(x, Tail(s))

\* the same ids, each as often, in any order
SameIdsAnyOrder(s, t) ==
    /\ Len(s) = Len(t)
    /\ \A i \in 1..Len(s) : Occurrences(s[i], s) = Occurrences(s[i], t)

Fingerprinted == fp.keys # NoFingerprints

RetryFinished == rt.pc \in {"returned", "threw"}

\* what a finished or running call of retryWithBackoff has done
RetryBounded ==
    /\ rt.invoked <= rt.maxRetries + 1
    /\ rt.pc = "returned" =>
           /\ rt.result = [value |-> TRUE]
           /\ rt.invoked = Len(rt.errors) + 1
    /\ rt.pc # "returned" => rt.invoked = Len(rt.errors)
    /\ rt.pc = "threw" => rt.result = [error |-> rt.errors[Len(rt.errors)]]
    /\ Len(rt.errors) = rt.maxRetries + 1 => rt.pc = "threw"

\* C36: retryWithBackoff(operation, maxRetries) invokes the operation at most
\* maxRetries + 1 times, returns the first success without invoking it again,
\* rethrows the last error when every attempt fails, and always terminates.
C36_RetryBoundedAndTerminates ==
    /\ [](rt.pc # "idle" => RetryBounded)
    /\ (rt.pc = "calling") ~> RetryFinished

\* every attempt failed with a retried status and the last error was rethrown
C36_Witness ==
    /\ rt.pc = "threw"
    /\ rt.maxRetries >= 1
    /\ rt.invoked = rt.maxRetries + 1
    /\ rt.errors[1] = 500
    /\ rt.result = [error |-> 429]

\* a status from 400 to 499 other than 408 and 429
NotRetriedStatus(status) == status \in (400..499) \ {408, 429}

\* C37: a failure whose status is 400..499 other than 408 and 429 is rethrown
\* at once; a failure with status 408, 429, 5xx or with no status is retried
\* while attempts remain.
C37_ClientErrorsNotRetried ==
    [][\A status \in ErrorStatuses :
          (rt.pc = "calling" /\ rt'.errors = Append(rt.errors, status)) =>
              /\ NotRetriedStatus(status) =>
                     rt'.pc = "threw" /\ rt'.result = [error |-> status]
              /\ (~NotRetriedStatus(status) /\ rt.attempt < rt.maxRetries) =>
                     rt'.pc = "sleeping"]_vars

\* a 429 was retried and the 404 that followed was rethrown with an attempt left
C37_Witness ==
    /\ rt.pc = "threw"
    /\ rt.errors = <<429, 404>>
    /\ rt.maxRetries = 2
    /\ rt.result = [error |-> 404]

----------------------------------------------------------------------------
(* Properties of the question-batch sessions: owners *)

\* C31: a session has no terminal state: for an existing session, a generator
\* that succeeds with a non-empty batch and a limit of at least 1, every
\* completed nextQuestions call returned at least one question, so that from
\* no reachable state do such calls keep returning an empty list.
C31_AlwaysMoreQuestions ==
    \A i \in 1..Len(calls) :
        (calls[i].limit >= 1 /\ calls[i].path \notin {"error", "notfound"}) =>
            Len(calls[i].questions) >= 1

\* the cache, the stored batch and the generator were each exhausted in turn
\* and each call still returned questions
C31_Witness ==
    /\ Len(calls) = 4
    /\ \A i \in 1..4 : calls[i].limit = 20 /\ Len(calls[i].questions) = 20
    /\ calls[1].path = "cache"
    /\ calls[2].path = "stored"
    /\ calls[3].path = "new"
    /\ calls[4].path = "stored"

\* the completed calls made by a user who did not create the session
ForeignCalls ==
    {i \in 1..Len(calls) : calls[i].userId # study_sessions[calls[i].id].userId}

\* C39: nextQuestions delivers questions, marks them shown and appends batches
\* only for requests made by the session's owner; a request of another
\* authenticated user for that session id receives none of its questions and
\* no running request of such a user holds questions to mark or a batch to
\* append.
C39_OnlyOwnerServed ==
    /\ \A i \in ForeignCalls : calls[i].questions = <<>>
    /\ \A slot \in Slots :
           (nq[slot].pc # "idle"
              /\ nq[slot].userId # study_sessions[nq[slot].id].userId) =>
                 nq[slot].pc \notin {"mark", "insert", "update"}

====
